---- MODULE Spec2Model ----
(***************************************************************************)
(* State-machine model of the BSDFViewer render pass                      *)
(* (Source/RenderPasses/BSDFViewer/BSDFViewer.cpp).                        *)
(*                                                                         *)
(* The object's members are the variables; every host callback (compile,   *)
(* setScene, execute, renderUI, onMouseEvent, onKeyEvent) is one action.   *)
(* Floating-point option values are abstracted to small integer "levels";  *)
(* pointers are sequences of length 0 (nullptr) or 1 (the pointee).        *)
(***************************************************************************)
EXTENDS Integers, Sequences, FiniteSets, TLC

\* ------------------------------------------------------------------ bounds
\* Largest number of materials in a scene.
MaxMaterials == 2
\* Largest frame width/height handed to compile.
MaxDim == 2
\* Largest value of mParams.frameCount the model lets execute reach.
MaxFrames == 2
\* Cursor positions are the fractions k / PosSteps of the window.
PosSteps == 2
\* Float-valued options range over the levels 0..MaxLevel.
MaxLevel == 1

VARIABLES
    mParams,            \* BSDFViewerParams mParams
    mpScene,            \* Scene::SharedPtr mpScene
    mpEnvProbe,         \* EnvProbe::SharedPtr mpEnvProbe
    mEnvProbeFilename,  \* std::string mEnvProbeFilename
    mMaterialList,      \* Gui::DropdownList mMaterialList
    mOptionsChanged,    \* bool mOptionsChanged
    mPixelDataValid,    \* bool mPixelDataValid
    mPixelData,         \* PixelData mPixelData (host copy)
    mPixelDataBuffer,   \* contents of the GPU buffer gPixelData
    dict,               \* the frame dictionary's kRenderPassRefreshFlags entry
    pixelGroupOpen,     \* was the "Pixel data" group open when the GUI was last drawn
    warnings,           \* warnings logged by the most recent callback
    envLoad,            \* the most recent loadEnvMap call of that callback
    lastCall,           \* the most recent callback and its event
    pixelPicked,        \* a left mouse press has selected a pixel of a sized frame
    failed              \* an exception left a callback

vars == <<mParams, mpScene, mpEnvProbe, mEnvProbeFilename, mMaterialList,
          mOptionsChanged, mPixelDataValid, mPixelData, mPixelDataBuffer,
          dict, pixelGroupOpen, warnings, envLoad, lastCall, pixelPicked,
          failed>>

\* ------------------------------------------------------------ value domains
Null == <<>>
Levels == 0..MaxLevel
Dims == 1..MaxDim

\* Source paths of environment maps, as sequences of path components.
EnvPaths == {<<"media", "sky.hdr">>, <<"probe.dds">>}

MaterialName(i) == IF i % 2 = 0 THEN "gold" ELSE "wood"

\* A scene: its materials' names in order and its light probe's source file.
SceneOf(n, probe) ==
    [materials |-> [i \in 1..n |-> MaterialName(i - 1)], lightProbe |-> probe]

Scenes == {SceneOf(n, probe) : n \in 1..MaxMaterials,
                               probe \in {Null} \cup {<<f>> : f \in EnvPaths}}

\* RenderPassRefreshFlags as sets of flag names; a dictionary entry is a
\* sequence: <<>> when the key does not exist, <<flags>> when it does.
RefreshFlags == SUBSET {"LightingChanged", "RenderOptionsChanged"}
DictValues == {Null} \cup {<<f>> : f \in RefreshFlags}

PixelRecords == [texC : Levels]

Groups == {"Material", "BSDF", "Light", "Camera", "Pixel data"}

CheckboxFields ==
    {"sliceViewer", "useSceneMaterial", "useNormalMapping", "useFixedTexCoords",
     "originalDisney", "enableDiffuse", "enableSpecular", "useBrdfSampling",
     "usePdf", "applyNdotL", "useGroundPlane", "useDirectionalLight",
     "useEnvMap", "orthographicCamera"}

VarFields ==
    {"texCoords", "baseColor", "linearRoughness", "metallic", "lightIntensity",
     "lightColor", "lightDir", "cameraDistance", "cameraFovY"}

\* Options of mParams that renderUI edits and that affect the output image.
OutputFields == CheckboxFields \cup VarFields \cup {"materialID"}

\* mParams as BSDFViewerParams default-initialises it.
DefaultParams ==
    [frameDim |-> <<0, 0>>, frameCount |-> 0,
     viewportOffset |-> <<0, 0>>, viewportScale |-> <<0, 0>>,
     sliceViewer |-> FALSE,
     useSceneMaterial |-> FALSE, materialID |-> 0,
     useNormalMapping |-> FALSE, useFixedTexCoords |-> FALSE, texCoords |-> 0,
     baseColor |-> 0, linearRoughness |-> 0, metallic |-> 0,
     originalDisney |-> FALSE, enableDiffuse |-> TRUE, enableSpecular |-> TRUE,
     useBrdfSampling |-> TRUE, usePdf |-> FALSE, applyNdotL |-> FALSE,
     lightIntensity |-> 0, lightColor |-> 0, useGroundPlane |-> FALSE,
     useDirectionalLight |-> FALSE, lightDir |-> 0, useEnvMap |-> FALSE,
     orthographicCamera |-> FALSE, cameraDistance |-> 0, cameraFovY |-> 0,
     cameraViewportScale |-> <<0, 0>>,
     selectedPixel |-> <<0, 0>>, readback |-> FALSE]

\* The light/environment-map state a load attempt could disturb.
LightState(probe, fname, p) ==
    [mpEnvProbe |-> probe, mEnvProbeFilename |-> fname,
     useEnvMap |-> p.useEnvMap, useDirectionalLight |-> p.useDirectionalLight]

NoLoad ==
    [result |-> "none",
     before |-> LightState(Null, "", DefaultParams),
     after |-> LightState(Null, "", DefaultParams)]

Call(name, type, key) == [name |-> name, type |-> type, key |-> key]

\* ------------------------------------------------------------- construction
Init ==
    /\ mParams = DefaultParams
    /\ mpScene = Null
    /\ mpEnvProbe = Null
    /\ mEnvProbeFilename = ""
    /\ mMaterialList = <<>>
    /\ mOptionsChanged = FALSE
    /\ mPixelDataValid = FALSE
    /\ mPixelData = [texC |-> 0]
    /\ mPixelDataBuffer = [texC |-> 0]
    /\ dict = Null
    /\ pixelGroupOpen = FALSE
    /\ warnings = <<>>
    /\ envLoad = NoLoad
    /\ lastCall = Call("create", "", "")
    /\ pixelPicked = FALSE
    /\ failed = FALSE

\* ------------------------------------------------------------------ compile
Min(a, b) == IF a < b THEN a ELSE b
Max(a, b) == IF a > b THEN a ELSE b

\* compile(): a square viewport centered in the frame.  viewportScale is
\* 1.f / extent, kept as the fraction <<1, extent>>.
CompileParams(p, dims) ==
    LET extent == Min(dims[1], dims[2])
        xOffset == (dims[1] - extent) \div 2
        yOffset == (dims[2] - extent) \div 2
    IN  [p EXCEPT !.frameDim = dims,
                  !.viewportOffset = <<xOffset, yOffset>>,
                  !.viewportScale = <<1, extent>>]

Compile(dims) ==
    /\ ~failed
    /\ mParams' = CompileParams(mParams, dims)
    /\ warnings' = <<>>
    /\ envLoad' = NoLoad
    /\ lastCall' = Call("compile", "", "")
    /\ UNCHANGED pixelPicked
    /\ UNCHANGED <<mpScene, mpEnvProbe, mEnvProbeFilename, mMaterialList,
                   mOptionsChanged, mPixelDataValid, mPixelData,
                   mPixelDataBuffer, dict, pixelGroupOpen, failed>>

\* ------------------------------------------------------------- onMouseEvent
\* (int)(x): conversion of a float to int truncates toward zero.
TruncDiv(n, d) == IF n >= 0 THEN n \div d ELSE -((-n) \div d)

\* glm::clamp(x, minVal, maxVal) = min(max(x, minVal), maxVal)
GlmClamp(x, lo, hi) == Min(Max(x, lo), hi)

\* Line 383: the pixel under the cursor, pos = <<kx, ky>> / PosSteps.
ClampOneOff(pos, frameDim) ==
    <<GlmClamp(TruncDiv(pos[1] * frameDim[1], PosSteps), 0, frameDim[1]),
      GlmClamp(TruncDiv(pos[2] * frameDim[2], PosSteps), 0, frameDim[2])>>

SelectPixel(pos, frameDim) ==
    <<GlmClamp(TruncDiv(pos[1] * frameDim[1], PosSteps), 0, frameDim[1] - 1),
      GlmClamp(TruncDiv(pos[2] * frameDim[2], PosSteps), 0, frameDim[2] - 1)>>

OnMouseEvent(type, pos) ==
    /\ ~failed
    /\ mParams' = IF type = "LeftButtonDown"
                  THEN [mParams EXCEPT !.selectedPixel = SelectPixel(pos, mParams.frameDim)]
                  ELSE mParams
    /\ warnings' = <<>>
    /\ envLoad' = NoLoad
    /\ lastCall' = Call("onMouseEvent", type, "")
    /\ pixelPicked' = (pixelPicked \/ (type = "LeftButtonDown" /\ mParams.frameDim[1] >= 1
                                                              /\ mParams.frameDim[2] >= 1))
    /\ UNCHANGED <<mpScene, mpEnvProbe, mEnvProbeFilename, mMaterialList,
                   mOptionsChanged, mPixelDataValid, mPixelData,
                   mPixelDataBuffer, dict, pixelGroupOpen, failed>>

\* --------------------------------------------------------------- onKeyEvent
\* Line 395
LastId(list) == IF Len(list) > 0 THEN Len(list) - 1 ELSE 0

StepMaterialIDNoWrap(id, lastId, key) ==
    IF key = "Left" THEN (IF id > 0 THEN id - 1 ELSE 0)
    ELSE IF key = "Right" THEN (IF id < lastId THEN id + 1 ELSE lastId)
    ELSE id

\* Lines 396-397
StepMaterialID(id, lastId, key) ==
    IF key = "Left" THEN (IF id > 0 THEN id - 1 ELSE lastId)
    ELSE IF key = "Right" THEN (IF id < lastId THEN id + 1 ELSE 0)
    ELSE id

KeyMarksAlways(id, prevId, flag) == TRUE

\* Line 399
KeyMarksChanged(id, prevId, flag) == IF id # prevId THEN TRUE ELSE flag

OnKeyEvent(type, key) ==
    /\ ~failed
    /\ IF type = "KeyPressed" /\ key \in {"Left", "Right"}
       THEN LET id == StepMaterialID(mParams.materialID, LastId(mMaterialList), key)
            IN  /\ mOptionsChanged' = KeyMarksChanged(id, mParams.materialID, mOptionsChanged)
                /\ mParams' = [mParams EXCEPT !.materialID = id]
       ELSE UNCHANGED <<mParams, mOptionsChanged>>
    /\ warnings' = <<>>
    /\ envLoad' = NoLoad
    /\ lastCall' = Call("onKeyEvent", type, key)
    /\ UNCHANGED pixelPicked
    /\ UNCHANGED <<mpScene, mpEnvProbe, mEnvProbeFilename, mMaterialList,
                   mPixelDataValid, mPixelData, mPixelDataBuffer, dict,
                   pixelGroupOpen, failed>>

\* --------------------------------------------------------------- loadEnvMap
\* getFilenameFromPath(): the last component of a path.
getFilenameFromPath(path) == path[Len(path)]

\* The members a callback works on, threaded through its statements:
\*   p, probe, fname  mParams, mpEnvProbe, mEnvProbeFilename
\*   dirty            renderUI's local `dirty`
\*   warnings         what logWarning() received
\*   ret, threw       loadEnvMap's return value / an exception is propagating
\*   load             the loadEnvMap call made, with the state around it
Object(p, probe, fname) ==
    [p |-> p, probe |-> probe, fname |-> fname, dirty |-> FALSE,
     warnings |-> <<>>, ret |-> FALSE, threw |-> FALSE, load |-> NoLoad]

\* EnvProbe::create and setIntoConstantBuffer are host calls; their result is
\* the input `outcome`: "fail" (create returned nullptr), "bindfail"
\* (setIntoConstantBuffer returned false) or "ok".
LoadOutcomes == {"ok", "fail", "bindfail"}

loadEnvMapDropsOnFailure(o, filename, outcome) ==
    IF outcome = "fail"
    THEN [o EXCEPT !.warnings = Append(@, <<"Failed to load environment map from ", filename>>),
                   !.probe = Null, !.fname = "",
                   !.p = [@ EXCEPT !.useEnvMap = FALSE],
                   !.ret = FALSE]
    ELSE LET o1 == [o EXCEPT !.probe = <<filename>>,
                             !.fname = getFilenameFromPath(filename)]
         IN  IF outcome = "bindfail"
             THEN [o1 EXCEPT !.threw = TRUE]
             ELSE [o1 EXCEPT !.ret = TRUE]

\* Lines 407-426
loadEnvMap(o, filename, outcome) ==
    IF outcome = "fail"
    THEN [o EXCEPT !.warnings = Append(@, <<"Failed to load environment map from ", filename>>),
                   !.ret = FALSE]
    ELSE LET o1 == [o EXCEPT !.probe = <<filename>>,
                             !.fname = getFilenameFromPath(filename)]
         IN  IF outcome = "bindfail"
             THEN [o1 EXCEPT !.threw = TRUE]
             ELSE [o1 EXCEPT !.ret = TRUE]

\* A call of loadEnvMap, recording the light state at the call and at its end.
CallLoadEnvMap(o, filename, outcome) ==
    LET r == loadEnvMap(o, filename, outcome)
    IN  [r EXCEPT !.load = [result |-> outcome,
                            before |-> LightState(o.probe, o.fname, o.p),
                            after |-> LightState(r.probe, r.fname, r.p)]]

\* ----------------------------------------------------------------- setScene
KeepMaterialID(p) == p

\* Line 114
ResetMaterialID(p) == [p EXCEPT !.materialID = 0]

\* Lines 141-147: the pairs { i, to_string(i) + ": " + name }; a label is kept
\* as the sequence of the three strings concatenated.
BuildMaterialList(scene) ==
    [k \in 1..Len(scene.materials) |->
        [value |-> k - 1,
         label |-> <<ToString(k - 1), ": ", scene.materials[k]>>]]

\* Lines 116-138 on the members; the material list is built by the action.
SetSceneLight(o, pScene, outcome) ==
    IF pScene = Null
    THEN [o EXCEPT !.p = [@ EXCEPT !.useSceneMaterial = FALSE, !.useEnvMap = FALSE]]
    ELSE LET o1 == IF pScene[1].lightProbe # Null
                   THEN CallLoadEnvMap(o, pScene[1].lightProbe[1], outcome)
                   ELSE o
         IN  IF o1.threw THEN o1
             ELSE IF o1.probe = Null
                  THEN [o1 EXCEPT !.p = [@ EXCEPT !.useEnvMap = FALSE]]
                  ELSE o1

SetScene(pScene, outcome) ==
    /\ ~failed
    /\ outcome = "ok" \/ (pScene # Null /\ pScene[1].lightProbe # Null)
    /\ LET o == SetSceneLight(Object(ResetMaterialID(mParams), Null, ""), pScene, outcome)
       IN  /\ mpScene' = pScene
           /\ mParams' = o.p
           /\ mpEnvProbe' = o.probe
           /\ mEnvProbeFilename' = o.fname
           /\ mMaterialList' = IF pScene = Null \/ o.threw THEN <<>>
                               ELSE BuildMaterialList(pScene[1])
           /\ warnings' = o.warnings
           /\ envLoad' = o.load
           /\ failed' = o.threw
    /\ lastCall' = Call("setScene", "", "")
    /\ UNCHANGED pixelPicked
    /\ UNCHANGED <<mOptionsChanged, mPixelDataValid, mPixelData,
                   mPixelDataBuffer, dict, pixelGroupOpen>>

\* ------------------------------------------------------------------ execute
\* The host creates the frame's dictionary; earlier passes may have set flags.
NewFrameDictionary(d) ==
    /\ ~failed
    /\ d # dict
    /\ dict' = d
    /\ warnings' = <<>>
    /\ envLoad' = NoLoad
    /\ lastCall' = Call("host", "", "")
    /\ UNCHANGED pixelPicked
    /\ UNCHANGED <<mParams, mpScene, mpEnvProbe, mEnvProbeFilename, mMaterialList,
                   mOptionsChanged, mPixelDataValid, mPixelData,
                   mPixelDataBuffer, pixelGroupOpen, failed>>

OverwriteRefreshFlags(d) == <<{"RenderOptionsChanged"}>>

\* Lines 158-159: prevFlags | RenderOptionsChanged, a missing key counting as 0.
UpdateRefreshFlags(d) ==
    LET prevFlags == IF d # Null THEN d[1] ELSE {}
    IN  <<prevFlags \cup {"RenderOptionsChanged"}>>

ReadbackKeepsValid(p, valid, data, buffer) ==
    IF p.readback
    THEN [valid |-> TRUE, data |-> buffer, p |-> [p EXCEPT !.texCoords = buffer.texC]]
    ELSE [valid |-> valid, data |-> data, p |-> p]

\* Lines 175-185
ReadbackPixel(p, valid, data, buffer) ==
    IF p.readback
    THEN [valid |-> TRUE, data |-> buffer, p |-> [p EXCEPT !.texCoords = buffer.texC]]
    ELSE [valid |-> FALSE, data |-> data, p |-> p]

\* Line 164: tan(radians(cameraFovY / 2)) * cameraDistance, kept symbolically
\* as the pair of its two arguments.
CameraViewportScale(p) == <<p.cameraFovY, p.cameraDistance>>

\* sgOk: SampleGenerator::setIntoProgramVars succeeded; gpu: what the compute
\* pass left in gPixelData.
Execute(sgOk, gpu) ==
    /\ ~failed
    /\ mParams.frameCount < MaxFrames
    /\ dict' = IF mOptionsChanged THEN UpdateRefreshFlags(dict) ELSE dict
    /\ mOptionsChanged' = FALSE
    /\ LET p1 == [mParams EXCEPT !.cameraViewportScale = CameraViewportScale(mParams)]
       IN  IF ~sgOk
           THEN /\ mParams' = p1
                /\ failed' = TRUE
                /\ UNCHANGED <<mPixelDataValid, mPixelData, mPixelDataBuffer>>
           ELSE LET r == ReadbackPixel(p1, mPixelDataValid, mPixelData, gpu)
                IN  /\ mPixelDataBuffer' = gpu
                    /\ mPixelDataValid' = r.valid
                    /\ mPixelData' = r.data
                    /\ mParams' = [r.p EXCEPT !.frameCount = @ + 1]
                    /\ failed' = FALSE
    /\ warnings' = <<>>
    /\ envLoad' = NoLoad
    /\ lastCall' = Call("execute", IF sgOk THEN "" ELSE "threw", "")
    /\ UNCHANGED pixelPicked
    /\ UNCHANGED <<mpScene, mpEnvProbe, mEnvProbeFilename, mMaterialList,
                   pixelGroupOpen>>

\* ----------------------------------------------------------------- renderUI
\* What the user does while one GUI frame is drawn: the groups that are open
\* and the one widget interacted with (ImGui has one active item per frame).
\*   widget   the option's name, "selectedPixel", "texC", "loadEnvMap" or "none"
\*   level    the value entered (var widgets, dropdown)
\*   pixel    the value entered in the "Pixel" field
\*   file     the file dialog's result, Null when cancelled
\*   outcome  what loading that file does
NoInput(open) ==
    [widget |-> "none", level |-> 0, pixel |-> <<0, 0>>, file |-> Null,
     outcome |-> "ok", open |-> open]

\* Gui::Widgets::checkbox: a click toggles the value; returns whether clicked.
Checkbox(v, clicked) == [value |-> IF clicked THEN ~v ELSE v, ret |-> clicked]

\* Gui::Widgets::var / rgbColor: returns whether the value changed.
Var(v, edited, nv) ==
    [value |-> IF edited THEN nv ELSE v, ret |-> edited /\ nv # v]

\* Gui::Widgets::dropdown: selects one of the list's values; returns whether
\* the value changed.
Dropdown(list, v, selected, nv) ==
    LET ok == selected /\ \E k \in 1..Len(list) : list[k].value = nv
    IN  [value |-> IF ok THEN nv ELSE v, ret |-> ok /\ nv # v]

\* dirty |= group.checkbox(label, mParams.f)
DirtyCheckbox(o, f, in) ==
    LET c == Checkbox(o.p[f], in.widget = f)
    IN  [o EXCEPT !.p[f] = c.value, !.dirty = @ \/ c.ret]

\* dirty |= group.var(label, mParams.f, ...) and group.rgbColor(label, mParams.f)
DirtyVar(o, f, in) ==
    LET c == Var(o.p[f], in.widget = f, in.level)
    IN  [o EXCEPT !.p[f] = c.value, !.dirty = @ \/ c.ret]

ModeChangeIgnored(p, prevMode) == FALSE

\* Line 221
ModeChanged(p, prevMode) == p.useSceneMaterial # prevMode

\* Lines 213-240
MaterialGroup(o, in, pScene, list) ==
    LET prevMode == o.p.useSceneMaterial
        c == Checkbox(o.p.useSceneMaterial, in.widget = "useSceneMaterial")
        m == IF pScene = Null THEN FALSE ELSE c.value
        o1 == [o EXCEPT !.p.useSceneMaterial = m]
        o2 == [o1 EXCEPT !.dirty = @ \/ ModeChanged(o1.p, prevMode)]
    IN  IF o2.p.useSceneMaterial
        THEN LET d == Dropdown(list, o2.p.materialID, in.widget = "materialID", in.level)
                 o3 == [o2 EXCEPT !.p.materialID = d.value, !.dirty = @ \/ d.ret]
                 o4 == DirtyCheckbox(o3, "useNormalMapping", in)
                 o5 == DirtyCheckbox(o4, "useFixedTexCoords", in)
             IN  DirtyVar(o5, "texCoords", in)
        ELSE LET o3 == DirtyVar(o2, "baseColor", in)
                 o4 == DirtyVar(o3, "linearRoughness", in)
             IN  DirtyVar(o4, "metallic", in)

\* Lines 243-259
BsdfGroup(o, in) ==
    LET o1 == DirtyCheckbox(o, "originalDisney", in)
        o2 == DirtyCheckbox(o1, "enableDiffuse", in)
        o3 == DirtyCheckbox(o2, "enableSpecular", in)
        o4 == DirtyCheckbox(o3, "useBrdfSampling", in)
        o5 == DirtyCheckbox(o4, "usePdf", in)
    IN  DirtyCheckbox(o5, "applyNdotL", in)

\* Lines 275-279
DirectionalLight(o, in) ==
    IF o.p.useDirectionalLight
    THEN DirtyVar([o EXCEPT !.p.useEnvMap = FALSE], "lightDir", in)
    ELSE o

EnvMapKeepsDirectional(o, in) ==
    IF o.probe # Null THEN DirtyCheckbox(o, "useEnvMap", in) ELSE o

\* Lines 282-295
EnvMapLight(o, in) ==
    IF o.probe # Null
    THEN LET o1 == DirtyCheckbox(o, "useEnvMap", in)
         IN  IF o1.p.useEnvMap
             THEN [o1 EXCEPT !.p.useDirectionalLight = FALSE]
             ELSE o1
    ELSE o

\* Lines 297-316
LoadEnvMapButton(o, in) ==
    IF in.widget = "loadEnvMap" /\ in.file # Null
    THEN LET r == CallLoadEnvMap(o, in.file[1], in.outcome)
         IN  IF r.threw THEN r
             ELSE IF r.ret
                  THEN [r EXCEPT !.p.useDirectionalLight = FALSE,
                                 !.p.useEnvMap = TRUE,
                                 !.dirty = TRUE]
                  ELSE r
    ELSE o

\* Lines 262-319
LightGroup(o, in) ==
    LET o1 == DirtyVar(o, "lightIntensity", in)
        o2 == DirtyVar(o1, "lightColor", in)
        o3 == DirtyCheckbox(o2, "useGroundPlane", in)
        o4 == DirtyCheckbox(o3, "useDirectionalLight", in)
        o5 == DirectionalLight(o4, in)
        o6 == EnvMapLight(o5, in)
    IN  LoadEnvMapButton(o6, in)

\* Lines 322-336
CameraGroup(o, in) ==
    LET o1 == DirtyCheckbox(o, "orthographicCamera", in)
    IN  IF ~o1.p.orthographicCamera
        THEN DirtyVar(DirtyVar(o1, "cameraDistance", in), "cameraFovY", in)
        ELSE o1

ReadbackOnlyWhenOpen(p, open) == open

\* Lines 339-340
NeedsReadback(p, open) ==
    LET readTexCoords == p.useSceneMaterial /\ ~p.useFixedTexCoords
    IN  readTexCoords \/ open

\* Lines 342-368 on mParams: the "Pixel" field has no range.
PixelGroup(p, in) ==
    IF in.widget = "selectedPixel" THEN [p EXCEPT !.selectedPixel = in.pixel] ELSE p

\* Lines 346-361 on mPixelData: its fields are shown in editable widgets.
PixelDataFields(data, valid, in) ==
    IF valid /\ in.widget = "texC" THEN [data EXCEPT !.texC = in.level] ELSE data

\* Lines 190-377. Each group is drawn on the result of the one before it.
RenderUI(in) ==
    /\ ~failed
    /\ \E o1 \in {DirtyCheckbox(Object(mParams, mpEnvProbe, mEnvProbeFilename),
                                 "sliceViewer", in)} :
       \E o2 \in {IF "Material" \in in.open
                  THEN MaterialGroup(o1, in, mpScene, mMaterialList) ELSE o1} :
       \E o3 \in {IF "BSDF" \in in.open THEN BsdfGroup(o2, in) ELSE o2} :
       \E o4 \in {IF "Light" \in in.open THEN LightGroup(o3, in) ELSE o3} :
           /\ mpEnvProbe' = o4.probe
           /\ mEnvProbeFilename' = o4.fname
           /\ warnings' = o4.warnings
           /\ envLoad' = o4.load
           /\ failed' = o4.threw
           /\ IF o4.threw
              THEN /\ mParams' = o4.p
                   /\ UNCHANGED <<mOptionsChanged, mPixelData, pixelGroupOpen>>
              ELSE \E o5 \in {IF "Camera" \in in.open THEN CameraGroup(o4, in) ELSE o4} :
                   LET open == "Pixel data" \in in.open
                       p6 == [o5.p EXCEPT !.readback = NeedsReadback(o5.p, open)]
                   IN  /\ mParams' = IF open THEN PixelGroup(p6, in) ELSE p6
                       /\ mPixelData' = IF open
                                        THEN PixelDataFields(mPixelData, mPixelDataValid, in)
                                        ELSE mPixelData
                       /\ pixelGroupOpen' = open
                       /\ mOptionsChanged' = IF o5.dirty THEN TRUE ELSE mOptionsChanged
    /\ lastCall' = Call("renderUI", "", "")
    /\ UNCHANGED pixelPicked
    /\ UNCHANGED <<mpScene, mMaterialList, mPixelDataValid, mPixelDataBuffer, dict>>

\* ------------------------------------------------------- the user's inputs
AllOpen == Groups
PixelClosed == Groups \ {"Pixel data"}

Click(w, op) == [NoInput(op) EXCEPT !.widget = w]
Edit(w, l, op) == [NoInput(op) EXCEPT !.widget = w, !.level = l]
PixelEdit(px, op) == [NoInput(op) EXCEPT !.widget = "selectedPixel", !.pixel = px]
Load(f, r, op) == [NoInput(op) EXCEPT !.widget = "loadEnvMap", !.file = f, !.outcome = r]

Idle == {NoInput(op) : op \in {AllOpen, PixelClosed}}
Clicks(W) == {Click(w, AllOpen) : w \in W}
Edits(W) == {Edit(w, l, AllOpen) : w \in W, l \in Levels}
Selections == {Edit("materialID", i, AllOpen) : i \in 0..(MaxMaterials - 1)}
Loads == {Load(<<f>>, r, AllOpen) : f \in EnvPaths, r \in LoadOutcomes}
         \cup {Load(Null, "ok", AllOpen)}

\* Coordinates on and around the frame, along the axes and the diagonal.
Around(lo, hi) ==
    {<<k, 0>> : k \in lo..hi} \cup {<<0, k>> : k \in lo..hi} \cup {<<k, k>> : k \in lo..hi}

PixelEdits == {PixelEdit(px, AllOpen) : px \in Around(-1, MaxDim)}
CursorPositions == Around(-1, PosSteps + 1)

ScenePointers == {Null} \cup {<<sc>> : sc \in Scenes}
ScenesWithoutProbe == {sp \in ScenePointers : sp = Null \/ sp[1].lightProbe = Null}
ScenesOfOneMaterial == {sp \in ScenePointers : sp = Null \/ Len(sp[1].materials) = 1}
SceneWithProbe == <<SceneOf(MaxMaterials, <<<<"media", "sky.hdr">>>>)>>
SceneOfTwo == <<SceneOf(2, Null)>>
KeyTypes == {"KeyPressed", "KeyReleased"}
Keys == {"Left", "Right", "Escape"}
MouseTypes == {"LeftButtonDown", "Move"}

\* No two options differ from their defaults.
AtMostOneEdited(p) ==
    Cardinality({f \in OutputFields : p[f] # DefaultParams[f]}) <= 1

\* --------------------------------------------------------- specifications
\* Material selection: scenes, arrow keys, the "Material" group.
NextMaterial ==
    \/ \E sc \in ScenePointers, r \in LoadOutcomes : SetScene(sc, r)
    \/ \E t \in KeyTypes, k \in Keys : OnKeyEvent(t, k)
    \/ \E in \in Idle \cup Clicks({"useSceneMaterial"}) \cup Selections : RenderUI(in)
    \/ Execute(TRUE, [texC |-> 0])

SpecMaterial == Init /\ [][NextMaterial]_vars

\* Pixel selection: frame sizes, the mouse, the "Pixel" field.
NextPixel ==
    \/ \E x \in Dims, y \in Dims : Compile(<<x, y>>)
    \/ \E t \in MouseTypes, pos \in CursorPositions : OnMouseEvent(t, pos)
    \/ \E in \in Idle \cup PixelEdits : RenderUI(in)

SpecPixel == Init /\ [][NextPixel]_vars

\* Lighting: the "Light" group, environment maps, scenes.
NextLight ==
    \/ \E sc \in ScenesOfOneMaterial, r \in LoadOutcomes : SetScene(sc, r)
    \/ \E in \in Idle \cup Clicks({"useDirectionalLight", "useEnvMap"}) \cup Loads : RenderUI(in)
    \/ Execute(TRUE, [texC |-> 0])

SpecLight == Init /\ [][NextLight]_vars

\* Refresh flags: what raises mOptionsChanged and how execute signals it.
NextRefresh ==
    \/ \E d \in DictValues : NewFrameDictionary(d)
    \/ \E ok \in BOOLEAN : Execute(ok, [texC |-> 0])
    \/ \E sc \in {Null, SceneOfTwo} : SetScene(sc, "ok")
    \/ \E in \in Idle \cup Clicks({"sliceViewer", "useSceneMaterial"}) : RenderUI(in)
    \/ \E k \in {"Left", "Right"} : OnKeyEvent("KeyPressed", k)

SpecRefresh == Init /\ [][NextRefresh]_vars

\* Frames: pixel readback and what enables it.
NextFrame ==
    \/ \E ok \in BOOLEAN, gpu \in PixelRecords : Execute(ok, gpu)
    \/ \E sc \in {Null, SceneOfTwo} : SetScene(sc, "ok")
    \/ \E in \in Idle \cup Clicks({"useSceneMaterial", "useFixedTexCoords"})
                 \cup Edits({"texC"}) : RenderUI(in)
    \/ OnKeyEvent("KeyPressed", "Right")
    \/ OnMouseEvent("LeftButtonDown", <<0, 0>>)

SpecFrame == Init /\ [][NextFrame]_vars

\* The GUI: every widget of renderUI, called in the states where at most one
\* option differs from its default (a call may edit a second one).
UIInputs ==
    {NoInput(AllOpen)} \cup Clicks(CheckboxFields) \cup Edits(VarFields) \cup Selections
    \cup {Load(<<<<"media", "sky.hdr">>>>, r, AllOpen) : r \in LoadOutcomes}
    \cup {Load(Null, "ok", AllOpen)}

NextUI ==
    \/ AtMostOneEdited(mParams) /\ \E in \in UIInputs : RenderUI(in)
    \/ AtMostOneEdited(mParams) /\ \E sc \in {Null, SceneWithProbe} : SetScene(sc, "ok")
    \/ AtMostOneEdited(mParams) /\ Execute(TRUE, [texC |-> 0])

SpecUI == Init /\ [][NextUI]_vars

\* ------------------------------------------------------------------ claims
Pressed(call) ==
    call.name = "onKeyEvent" /\ call.type = "KeyPressed" /\ call.key \in {"Left", "Right"}

\* C1: with n >= 1 materials and the index id in 0..n-1, a Right key press
\* sets materialID to (id + 1) mod n and a Left key press to (id - 1) mod n.
C1_ArrowKeysWrap ==
    [][LET n == Len(mMaterialList)
           id == mParams.materialID
       IN  (Pressed(lastCall') /\ n >= 1 /\ id < n) =>
               /\ lastCall'.key = "Right" => mParams'.materialID = (id + 1) % n
               /\ lastCall'.key = "Left" => mParams'.materialID = (id - 1) % n]_vars

\* C1 witness: a Left press at index 0 of a list of two or more has wrapped
\* to the last index.
C1_Witness ==
    /\ Pressed(lastCall) /\ lastCall.key = "Left"
    /\ Len(mMaterialList) >= 2
    /\ mParams.materialID = Len(mMaterialList) - 1

\* C2 as stated: every Left or Right key press leaves mOptionsChanged true,
\* whatever the size of the material list.
C2_EveryPressMarks ==
    (Pressed(lastCall) /\ Len(mMaterialList) >= 1) => mOptionsChanged

\* C2 amended: a Left or Right key press marks options changed exactly when
\* it changes the material index; otherwise the flag keeps its value.
C2_PressMarksWhenIndexChanges ==
    [][Pressed(lastCall') =>
          mOptionsChanged' =
              (mOptionsChanged \/ mParams'.materialID # mParams.materialID)]_vars

\* C2 witness: a press on a one-material list returned with the flag unset.
C2_Witness ==
    Pressed(lastCall) /\ Len(mMaterialList) = 1 /\ ~mOptionsChanged

\* C9: materialID indexes the material list (0 when the list is empty), and
\* setScene rebuilds the list as the pairs (i, label) for i = 0..count-1, in
\* order, and resets materialID to 0.
C9_MaterialIdValid ==
    /\ mMaterialList = <<>> => mParams.materialID = 0
    /\ mMaterialList # <<>> => mParams.materialID < Len(mMaterialList)
    /\ lastCall.name = "setScene" =>
          /\ mParams.materialID = 0
          /\ (mpScene # Null /\ ~failed) =>
                /\ Len(mMaterialList) = Len(mpScene[1].materials)
                /\ \A k \in 1..Len(mMaterialList) :
                      /\ mMaterialList[k].value = k - 1
                      /\ mMaterialList[k].label =
                            <<ToString(k - 1), ": ", mpScene[1].materials[k]>>
          /\ mpScene = Null => mMaterialList = <<>>

\* C9 witness: setScene has rebuilt a list of several materials while the
\* scene material was in use.
C9_Witness ==
    /\ lastCall.name = "setScene"
    /\ Len(mMaterialList) >= 2
    /\ mParams.useSceneMaterial

InFrame(px, frameDim) ==
    /\ 0 <= px[1] /\ px[1] <= frameDim[1] - 1
    /\ 0 <= px[2] /\ px[2] <= frameDim[2] - 1

Compiled == mParams.frameDim[1] >= 1 /\ mParams.frameDim[2] >= 1

\* C3 as stated: once a left mouse press (on a frame of at least 1x1) has
\* happened, the selected pixel is inside the frame in every later state.
C3_AlwaysInFrame ==
    pixelPicked => InFrame(mParams.selectedPixel, mParams.frameDim)

\* C3 amended: on return from a left mouse press on a frame of at least 1x1
\* the selected pixel is inside the frame.
C3_InFrameAfterPress ==
    (lastCall.name = "onMouseEvent" /\ lastCall.type = "LeftButtonDown" /\ Compiled)
        => InFrame(mParams.selectedPixel, mParams.frameDim)

\* C3 witness: a press beyond the far corner was clamped to the last pixel
\* of a frame of more than one pixel.
C3_Witness ==
    /\ lastCall.name = "onMouseEvent" /\ lastCall.type = "LeftButtonDown"
    /\ mParams.frameDim[1] >= 2
    /\ mParams.selectedPixel = <<mParams.frameDim[1] - 1, mParams.frameDim[2] - 1>>

C10_LightModesConsistent ==
    /\ ~(mParams.useDirectionalLight /\ mParams.useEnvMap)
    /\ mParams.useEnvMap => mpEnvProbe # Null

\* C10 witness: the directional light is on while a probe is loaded.
C10_Witness ==
    /\ lastCall.name = "renderUI"
    /\ mParams.useDirectionalLight
    /\ mpEnvProbe # Null

Returned(call) == call.name = "execute" /\ call.type = ""

\* C5: after every execute, mPixelDataValid is true iff readback was on
\* during it, and then mPixelData and texCoords hold the values read back.
C5_ValidIffReadback ==
    [][Returned(lastCall') =>
          /\ mPixelDataValid' = mParams.readback
          /\ mParams.readback =>
                /\ mPixelData' = mPixelDataBuffer'
                /\ mParams'.texCoords = mPixelDataBuffer'.texC]_vars

\* C5 witness: an execute without readback left the flag false although an
\* earlier frame had read a record back.
C5_Witness ==
    /\ Returned(lastCall)
    /\ ~mPixelDataValid
    /\ mPixelData.texC # 0

\* C6: execute ORs RenderOptionsChanged into the dictionary's refresh flags
\* (a missing key counting as none) and clears mOptionsChanged when it is
\* set, and leaves the dictionary alone when it is not.
C6_RefreshFlagsSignalled ==
    [][lastCall'.name = "execute" =>
          /\ ~mOptionsChanged'
          /\ mOptionsChanged =>
                dict' = <<(IF dict = Null THEN {} ELSE dict[1])
                          \cup {"RenderOptionsChanged"}>>
          /\ ~mOptionsChanged => dict' = dict]_vars

\* C6 witness: after an execute the dictionary holds RenderOptionsChanged
\* next to a flag that was there before.
C6_Witness ==
    /\ lastCall.name = "execute"
    /\ dict = <<{"LightingChanged", "RenderOptionsChanged"}>>

ReadbackNeeded ==
    (mParams.useSceneMaterial /\ ~mParams.useFixedTexCoords) \/ pixelGroupOpen

\* C8 as stated: at every execute, readback is on exactly when it is needed.
C8_ReadbackExactlyWhenNeeded ==
    lastCall.name = "execute" => (mParams.readback = ReadbackNeeded)

\* C8 amended: whenever readback is needed it is on (at every execute and
\* in between); it may stay on when no longer needed.
C8_ReadbackWhenNeeded == ReadbackNeeded => mParams.readback

\* C8 witness: an execute ran with readback on for the texture coordinates
\* alone, the inspector panel being closed.
C8_Witness ==
    /\ Returned(lastCall)
    /\ mParams.readback /\ ~pixelGroupOpen
    /\ mParams.useSceneMaterial /\ ~mParams.useFixedTexCoords

\* C7: when a renderUI call changes an option that affects the output,
\* mOptionsChanged is true on return; when it changes none and loads no
\* environment map, it leaves mOptionsChanged as it was.
C7_DirtyWhenOptionChanges ==
    [][(lastCall'.name = "renderUI" /\ ~failed') =>
          LET changed == \E f \in OutputFields : mParams'[f] # mParams[f]
          IN  /\ changed => mOptionsChanged'
              /\ (~changed /\ envLoad'.result # "ok") =>
                    mOptionsChanged' = mOptionsChanged]_vars

\* C7 witness: renderUI returned with the flag set and the scene material
\* switched on.
C7_Witness ==
    /\ lastCall.name = "renderUI"
    /\ mOptionsChanged
    /\ mParams.useSceneMaterial
    /\ mParams.frameCount >= 1

====
